---- MODULE Spec2Model ----
(***************************************************************************)
(* Monte Carlo dashboard: the batch-driven run loop of BaseSimulation, the *)
(* accumulators of the six estimators, and the websocket session that      *)
(* drives an estimator for one connection.                                 *)
(*                                                                         *)
(* Random draws are abstracted: an accumulator field is modelled by the    *)
(* number it counts (a trial counter) or by the length of the list it      *)
(* holds.  A statistics map is modelled by the number of trials it was     *)
(* computed from.                                                          *)
(***************************************************************************)
EXTENDS Integers, Sequences, FiniteSets, TLC

\* ------------------------------------------------------------------ bounds
MaxN == 3          \* largest requested n_simulations of the small inputs
MaxBatch == 3      \* largest requested batch_size of the small inputs
MaxFreq == 3       \* largest update_frequency of the small inputs
MaxBurnIn == 1     \* largest burn_in of the small inputs (MarkovChain)
MaxInbox == 2      \* client messages in flight on the connection
MaxRuns == 2       \* start_simulation requests accepted on the connection
BigN == 6000       \* n_simulations of the inputs that fill the stored lists
BigBatchA == 100   \* batch sizes of those inputs
BigBatchB == 300
BigFreq == 1000    \* update_frequency of those inputs

\* ------------------------------------------------------- program constants
PiMaxVizPoints == 5000        \* PiEstimation.max_viz_points
PiBatchVizPoints == 100       \* points sampled per batch
IntegrationMaxPoints == 1000  \* stored sample_points limit
IntegrationBatchPoints == 50
OptionMaxPaths == 100         \* stored sample_paths limit
OptionBatchPaths == 10
HypothesisMaxStored == 5000   \* stored p_values limit
DefaultMaxPoints == 100       \* get_convergence_data(max_points=100)

Min(a, b) == IF a <= b THEN a ELSE b

\* ------------------------------------------------------------ state
VARIABLES
  driver,              \* "caller": run() is driven directly; "session": by the websocket
  pc,                  \* position of the run() generator
  kind,                \* estimator class (key of simulation_classes)
  selector,            \* function_type / option_type / test_type / distribution(_type)
  n_simulations, batch_size, update_frequency, burn_in,
  current_iteration, is_running, results, convergence_history,
  batches,             \* number of simulate_batch calls of this run
  last_batch,          \* argument of the last simulate_batch call (0: none yet)
  merged,              \* trials of the batches update_results has merged in this run
  snapshots,           \* the snapshots the generator has yielded, in order
  exit_reason,         \* how run() ended: "none", "completed", "stopped", "failed_batch", "failed_stats"
  stop_at_boundary,    \* stop() was called while run() was suspended at yield or sleep(0)
  final,               \* what get_final_results() returned to the direct caller
  construct_error,     \* the last constructor call raised
  runs,                \* constructor calls so far
  ws_is_running, current_simulation, inbox, outbox,
  epc,                 \* position of websocket_endpoint / start_simulation
  stop_sent_at,        \* current_iteration when the client sent stop_simulation during a run (-1: none)
  args,                \* the arguments of the one call a unit specification makes
  ret,                 \* what that call returned
  est,                 \* an estimator object driven method by method, outside run()
  np_random,           \* the state of numpy's process-wide generator
  execs                \* the executions that draw from it

cfgVars == <<kind, selector, n_simulations, batch_size, update_frequency, burn_in>>
engineVars == <<pc, current_iteration, is_running, results, convergence_history>>
ghostVars == <<batches, last_batch, merged, snapshots, exit_reason, stop_at_boundary>>
sessionVars == <<ws_is_running, current_simulation, inbox, outbox, epc, stop_sent_at>>
seedVars == <<np_random, execs>>
unitVars == <<args, ret, est, seedVars>>
vars == <<driver, cfgVars, engineVars, ghostVars, final, construct_error, runs, sessionVars,
          unitVars>>

\* ------------------------------------------------------------ estimators
Kinds == {"pi", "integration", "option-pricing", "hypothesis", "risk", "markov"}

\* The selector names each estimator's code knows.
Recognized(k) ==
  CASE k = "pi" -> {"-"}
    [] k = "integration" -> {"gaussian", "sine", "polynomial", "exponential", "reciprocal"}
    [] k = "option-pricing" -> {"call", "put"}
    [] k = "hypothesis" -> {"two-sided", "right-tailed", "left-tailed"}
    [] k = "risk" -> {"normal", "t", "historical"}
    [] k = "markov" -> {"normal", "gamma", "beta", "bimodal", "cauchy", "exponential"}

\* The selector names the model feeds each constructor: one the code knows, one it does not.
SelectorInputs(k) ==
  CASE k = "pi" -> {"-"}
    [] k = "integration" -> {"gaussian", "bogus"}
    [] k = "option-pricing" -> {"call", "bogus"}
    [] k = "hypothesis" -> {"two-sided", "bogus"}
    [] k = "risk" -> {"normal", "bogus"}
    [] k = "markov" -> {"normal", "bogus"}

\* The constructors that end in `raise ValueError(...)` for an unknown name.
ConstructRaises(k, s) ==
  /\ k \in {"integration", "hypothesis", "markov"}
  /\ s \notin Recognized(k)

\* ValueAtRisk.simulate_batch falls through its if/elif chain for an unknown
\* distribution and reads the unbound cumulative_return: UnboundLocalError.
SimulateBatchRaises(k, s) == k = "risk" /\ s \notin Recognized(k)

\* The accumulator each constructor installs in self.results.
InitialResults(k) ==
  CASE k = "pi" -> [total_points |-> 0, sample_points |-> 0]
    [] k = "integration" -> [count |-> 0, sample_points |-> 0]
    [] k = "option-pricing" -> [count |-> 0, sample_paths |-> 0]
    [] k = "hypothesis" -> [total_tests |-> 0, p_values |-> 0, test_statistics |-> 0, decisions |-> 0]
    [] k = "risk" -> [returns |-> 0, portfolio_values |-> 0, losses |-> 0]
    [] k = "markov" -> [samples |-> 0, total_proposed |-> 0, states |-> 0]

\* How many items a batch of n trials stores in a capped list that holds `stored`.
CappedSample(stored, n, perBatch, cap) ==
  IF stored < cap THEN Min(perBatch, Min(n, cap - stored)) ELSE 0

\* HypothesisTesting tests len(self.results['p_values']) for every trial of the
\* batch, and that list only grows when the batch is merged.
HypothesisStored(stored, n) == IF stored < HypothesisMaxStored THEN n ELSE 0

\* MarkovChain keeps a sample when self.current_iteration >= self.burn_in; the
\* counter is advanced by run() after the batch.
MarkovSamples(cur, burn, n) == IF cur >= burn THEN n ELSE 0

\* simulate_batch(n): the contribution record of one batch.
simulate_batch(k, res, n, cur, burn) ==
  CASE k = "pi" ->
         [total_points |-> n,
          sample_points |-> CappedSample(res.sample_points, n, PiBatchVizPoints, PiMaxVizPoints)]
    [] k = "integration" ->
         [count |-> n,
          sample_points |-> CappedSample(res.sample_points, n, IntegrationBatchPoints, IntegrationMaxPoints)]
    [] k = "option-pricing" ->
         [count |-> n,
          sample_paths |-> CappedSample(res.sample_paths, n, OptionBatchPaths, OptionMaxPaths)]
    [] k = "hypothesis" ->
         [total_tests |-> n,
          p_values |-> HypothesisStored(res.p_values, n),
          test_statistics |-> HypothesisStored(res.p_values, n),
          decisions |-> HypothesisStored(res.p_values, n)]
    [] k = "risk" -> [returns |-> n, portfolio_values |-> n, losses |-> n]
    [] k = "markov" ->
         [samples |-> MarkovSamples(cur, burn, n), total_proposed |-> n, states |-> n]

\* Variant: the batch's values put in place of the accumulated ones.
update_results_overwrite(res, batch) == [f \in DOMAIN res |-> batch[f]]

\* update_results: every key is already present, so numbers add and lists extend.
update_results(res, batch) == [f \in DOMAIN res |-> res[f] + batch[f]]

\* The number of trials a statistics map is computed from.
TrialBasis(k, res) ==
  CASE k = "pi" -> res.total_points
    [] k \in {"integration", "option-pricing"} -> res.count
    [] k = "hypothesis" -> res.total_tests
    [] k = "risk" -> res.returns
    [] k = "markov" -> res.samples

calculate_statistics(k, res) == [basis |-> TrialBasis(k, res)]

\* ------------------------------------------------------------ BaseSimulation
\* __init__: self.batch_size = min(batch_size, n_simulations)
StoredBatchSize(b, n) == Min(b, n)

\* MarkovChain.__init__ adds burn_in to the requested n_simulations.
AdjustedN(k, n, burn) == IF k = "markov" THEN n + burn ELSE n

\* Variants of the while test: one pass too many; the running flag not read.
LoopCondInclusive(cur, n, running) == cur <= n /\ running

LoopCondIgnoresStop(cur, n, running) == cur < n

\* run(): while self.current_iteration < self.n_simulations and self.is_running
LoopCond(cur, n, running) == cur < n /\ running

\* Variant: the batch size not limited by the remaining trials.
CurrentBatchSizeUncapped(b, n, cur) == b

\* run(): current_batch_size = min(self.batch_size, remaining)
CurrentBatchSize(b, n, cur) == Min(b, n - cur)

\* Variant: no snapshot forced at the last iteration.
EmitDueNoFinal(cur, u, n) == cur % u = 0

\* run(): the test that decides whether a snapshot is due
EmitDue(cur, u, n) == cur % u = 0 \/ cur = n

\* run(): 'progress': self.current_iteration / self.n_simulations, the
\* quotient kept as the fraction num/den.
Progress(cur, n) == [num |-> cur, den |-> n]

\* Variant: the new entry put in front.
HistoryPrepend(h, e) == <<e>> \o h

\* run(): self.convergence_history.append({...})
HistoryAppend(h, e) == Append(h, e)

\* Variant: the index sequence of linspace(..., endpoint=False).
LinspaceIndexNoEndpoint(i, L, max_points) == (i * L) \div max_points

\* np.linspace(0, L - 1, max_points, dtype=int)[i]
LinspaceIndex(i, L, max_points) == (i * (L - 1)) \div (max_points - 1)

\* get_convergence_data: `return self.convergence_history` hands out the list
\* object the engine goes on appending to; only the downsampled result is a
\* list of its own.
ReturnsHistoryItself(h, max_points) == Len(h) <= max_points

get_convergence_data(h, max_points) ==
  IF Len(h) <= max_points THEN h
  ELSE [i \in 1..max_points |-> h[LinspaceIndex(i - 1, Len(h), max_points) + 1]]

\* Variant: the iteration count taken from the last history entry.
get_final_results_from_history(k, cur, res, h) ==
  [status |-> "ok",
   total_iterations |-> IF h = <<>> THEN 0 ELSE h[Len(h)].iteration,
   statistics |-> calculate_statistics(k, res),
   convergence_history |-> h]

\* get_final_results()
get_final_results(k, cur, res, h) ==
  [status |-> "ok",
   total_iterations |-> cur,
   statistics |-> calculate_statistics(k, res),
   convergence_history |-> h]

\* ------------------------------------------------------------ inputs
ConfigsOver(ns, bs, us, burns) ==
  {c \in [kind : Kinds, selector : {"-", "gaussian", "call", "two-sided", "normal", "bogus"},
          n : ns, b : bs, u : us, burn : burns] :
     /\ c.selector \in SelectorInputs(c.kind)
     /\ (c.kind # "markov" => c.burn = 0)}

SmallConfigs == ConfigsOver(1..MaxN, 1..MaxBatch, 1..MaxFreq, 0..MaxBurnIn)

\* Inputs large enough to fill the capped lists; the selector is a known one.
BigConfigs ==
  {c \in ConfigsOver({BigN}, {BigBatchA, BigBatchB}, {BigFreq}, {0}) : c.selector # "bogus"}

NoResults == [none |-> 0]
NoFinal == [status |-> "none"]

EngineIdle ==
  /\ pc = "none"
  /\ kind = "none" /\ selector = "none"
  /\ n_simulations = 0 /\ batch_size = 0 /\ update_frequency = 0 /\ burn_in = 0
  /\ current_iteration = 0 /\ is_running = FALSE
  /\ results = NoResults /\ convergence_history = <<>>
  /\ batches = 0 /\ last_batch = 0 /\ merged = 0 /\ snapshots = <<>>
  /\ exit_reason = "none" /\ stop_at_boundary = FALSE
  /\ final = NoFinal /\ construct_error = FALSE /\ runs = 0

SessionIdle ==
  /\ ws_is_running = FALSE /\ current_simulation = FALSE
  /\ inbox = <<>> /\ outbox = <<>> /\ epc = "recv" /\ stop_sent_at = -1

NoArgs == [fn |-> "none"]
NoRet == [status |-> "none"]
NoEst == [kind |-> "none"]

NoExec == [pc |-> "none"]

\* Nothing has been seeded and no execution exists.
SeedIdle ==
  /\ np_random = [stream |-> -1, pos |-> 0]
  /\ execs = [who \in {"ref", "test", "other"} |-> NoExec]

UnitIdle == args = NoArgs /\ ret = NoRet /\ est = NoEst /\ SeedIdle

Init ==
  /\ driver \in {"caller", "session"}
  /\ EngineIdle
  /\ SessionIdle
  /\ UnitIdle

\* ------------------------------------------------------------ construction
\* SimulationClass(**params) that returns: BaseSimulation.__init__ and the
\* subclass constructor.
Construct(c) ==
  /\ kind' = c.kind
  /\ selector' = c.selector
  /\ n_simulations' = AdjustedN(c.kind, c.n, c.burn)
  /\ batch_size' = StoredBatchSize(c.b, AdjustedN(c.kind, c.n, c.burn))
  /\ update_frequency' = c.u
  /\ burn_in' = c.burn
  /\ current_iteration' = 0
  /\ is_running' = TRUE
  /\ results' = InitialResults(c.kind)
  /\ convergence_history' = <<>>
  /\ pc' = "new"
  /\ batches' = 0 /\ last_batch' = 0 /\ merged' = 0 /\ snapshots' = <<>>
  /\ exit_reason' = "none" /\ stop_at_boundary' = FALSE
  /\ final' = NoFinal
  /\ construct_error' = FALSE
  /\ runs' = runs + 1

\* SimulationClass(**params) that raises: no object comes into being.
ConstructFails ==
  /\ construct_error' = TRUE
  /\ runs' = runs + 1
  /\ UNCHANGED <<cfgVars, engineVars, ghostVars, final>>

ConstructWith(c) == IF ConstructRaises(c.kind, c.selector) THEN ConstructFails ELSE Construct(c)

\* A direct caller constructs one estimator.
CallerConstruct ==
  /\ driver = "caller" /\ pc = "none" /\ runs = 0
  /\ \E c \in SmallConfigs : ConstructWith(c)
  /\ UNCHANGED <<driver, unitVars, sessionVars>>

CallerConstructBig ==
  /\ driver = "caller" /\ pc = "none" /\ runs = 0
  /\ \E c \in BigConfigs : ConstructWith(c)
  /\ UNCHANGED <<driver, unitVars, sessionVars>>

\* ------------------------------------------------------------ run()
\* The generator advances when its consumer awaits the next item.
Advancing == driver = "caller" \/ epc = "iter"

\* Variant: the flag left as run() finds it.
RunningOnEntryKept(running) == running

\* run(): self.is_running = True
RunningOnEntry(running) == TRUE

\* First advance of run(): self.is_running = True; self.current_iteration = 0
RunEnter ==
  /\ pc = "new" /\ Advancing
  /\ is_running' = RunningOnEntry(is_running)
  /\ current_iteration' = 0
  /\ pc' = "loop"
  /\ UNCHANGED <<driver, unitVars, cfgVars, results, convergence_history, ghostVars, final,
                 construct_error, runs, sessionVars>>

\* The while test fails: the generator returns.
LoopExit ==
  /\ pc = "loop"
  /\ ~LoopCond(current_iteration, n_simulations, is_running)
  /\ pc' = "done"
  /\ exit_reason' = IF current_iteration < n_simulations THEN "stopped" ELSE "completed"
  /\ UNCHANGED <<driver, unitVars, cfgVars, current_iteration, is_running, results, convergence_history,
                 batches, last_batch, merged, snapshots, stop_at_boundary, final,
                 construct_error, runs, sessionVars>>

\* One pass of the loop body in which nothing raises: simulate_batch, the
\* counter, update_results, and, when a snapshot is due, calculate_statistics,
\* the history entry and the yield; otherwise the pass goes on to sleep(0).
Batch ==
  /\ pc = "loop"
  /\ LoopCond(current_iteration, n_simulations, is_running)
  /\ ~SimulateBatchRaises(kind, selector)
  /\ LET nb == CurrentBatchSize(batch_size, n_simulations, current_iteration)
         cur == current_iteration + nb
         res == update_results(results, simulate_batch(kind, results, nb, current_iteration, burn_in))
         stats == calculate_statistics(kind, res)
         hist == HistoryAppend(convergence_history, [iteration |-> cur, basis |-> stats.basis])
     IN /\ batches' = batches + 1
        /\ last_batch' = nb
        /\ current_iteration' = cur
        /\ results' = res
        /\ merged' = merged + nb
        /\ IF EmitDue(cur, update_frequency, n_simulations)
             THEN /\ convergence_history' = hist
                  /\ snapshots' = Append(snapshots,
                        [iteration |-> cur, progress |-> Progress(cur, n_simulations),
                         statistics |-> stats,
                         convergence_history |-> get_convergence_data(hist, DefaultMaxPoints),
                         history_is_live |-> ReturnsHistoryItself(hist, DefaultMaxPoints)])
                  /\ pc' = "yield"
             ELSE /\ UNCHANGED <<convergence_history, snapshots>>
                  /\ pc' = "sleep"
  /\ UNCHANGED <<driver, unitVars, cfgVars, is_running, exit_reason, stop_at_boundary, final,
                 construct_error, runs, sessionVars>>

\* simulate_batch raises (always for an unknown ValueAtRisk distribution, and
\* for any estimator on an unexpected error): the exception leaves run() before
\* the counter is advanced.
BatchRaises ==
  /\ pc = "loop"
  /\ LoopCond(current_iteration, n_simulations, is_running)
  /\ batches' = batches + 1
  /\ last_batch' = CurrentBatchSize(batch_size, n_simulations, current_iteration)
  /\ pc' = "failed"
  /\ exit_reason' = "failed_batch"
  /\ UNCHANGED <<driver, unitVars, cfgVars, current_iteration, is_running, results, convergence_history,
                 merged, snapshots, stop_at_boundary, final, construct_error, runs,
                 sessionVars>>

\* calculate_statistics raises on a pass where a snapshot is due: the batch is
\* merged and counted, no history entry is made and nothing is yielded.
StatsRaises ==
  /\ pc = "loop"
  /\ LoopCond(current_iteration, n_simulations, is_running)
  /\ ~SimulateBatchRaises(kind, selector)
  /\ LET nb == CurrentBatchSize(batch_size, n_simulations, current_iteration)
     IN /\ EmitDue(current_iteration + nb, update_frequency, n_simulations)
        /\ batches' = batches + 1
        /\ last_batch' = nb
        /\ current_iteration' = current_iteration + nb
        /\ merged' = merged + nb
        /\ results' = update_results(results,
                         simulate_batch(kind, results, nb, current_iteration, burn_in))
  /\ pc' = "failed"
  /\ exit_reason' = "failed_stats"
  /\ UNCHANGED <<driver, unitVars, cfgVars, is_running, convergence_history, snapshots,
                 stop_at_boundary, final, construct_error, runs, sessionVars>>

\* The consumer asks for the next item: the generator resumes after the yield
\* and reaches `await asyncio.sleep(0)`.
ResumeYield ==
  /\ pc = "yield"
  /\ driver = "caller" \/ epc = "sent"
  /\ pc' = "sleep"
  /\ epc' = IF driver = "session" THEN "iter" ELSE epc
  /\ UNCHANGED <<driver, unitVars, cfgVars, current_iteration, is_running, results, convergence_history,
                 ghostVars, final, construct_error, runs,
                 ws_is_running, current_simulation, inbox, outbox, stop_sent_at>>

\* sleep(0) returns: back to the while test.
ResumeSleep ==
  /\ pc = "sleep" /\ Advancing
  /\ pc' = "loop"
  /\ UNCHANGED <<driver, unitVars, cfgVars, current_iteration, is_running, results, convergence_history,
                 ghostVars, final, construct_error, runs, sessionVars>>

\* stop(), called by the direct caller wherever run() is not executing.
Stop ==
  /\ driver = "caller"
  /\ pc \in {"new", "yield", "sleep", "done", "failed"}
  /\ is_running
  /\ is_running' = FALSE
  /\ stop_at_boundary' = (stop_at_boundary \/ pc \in {"yield", "sleep"})
  /\ UNCHANGED <<driver, unitVars, cfgVars, pc, current_iteration, results, convergence_history,
                 batches, last_batch, merged, snapshots, exit_reason, final, construct_error,
                 runs, sessionVars>>

\* get_final_results(), called by the direct caller after run() has exited.
\* It recomputes the statistics, so it raises where the run's own
\* statistics computation raised on the same accumulated state.
GetFinalResults ==
  /\ driver = "caller"
  /\ pc \in {"done", "failed"}
  /\ final = NoFinal
  /\ final' = IF exit_reason = "failed_stats" THEN [status |-> "error"]
              ELSE get_final_results(kind, current_iteration, results, convergence_history)
  /\ UNCHANGED <<driver, unitVars, cfgVars, engineVars, ghostVars, construct_error, runs, sessionVars>>

EngineNext ==
  \/ RunEnter \/ LoopExit \/ Batch \/ BatchRaises \/ StatsRaises
  \/ ResumeYield \/ ResumeSleep \/ Stop \/ GetFinalResults

\* ------------------------------------------------------------ websocket session
Msg(t, k) == [type |-> t, n |-> k]

Starts(q) == Cardinality({i \in 1..Len(q) : q[i] = "start_simulation"})

\* The client puts a message on the connection.  A stop sent while the
\* session's simulation runs is noted with the iteration count of that moment.
ClientSend ==
  /\ driver = "session" /\ epc # "closed"
  /\ Len(inbox) < MaxInbox
  /\ \E m \in {"start_simulation", "stop_simulation"} :
       /\ m = "start_simulation" => runs + Starts(inbox) < MaxRuns
       /\ inbox' = Append(inbox, m)
       /\ stop_sent_at' = IF m = "stop_simulation" /\ ws_is_running /\ stop_sent_at = -1
                            THEN current_iteration ELSE stop_sent_at
  /\ UNCHANGED <<driver, unitVars, cfgVars, engineVars, ghostVars, final, construct_error, runs,
                 ws_is_running, current_simulation, outbox, epc>>

\* The estimator object is dropped: nothing of it can be observed again.
Discarded ==
  /\ pc' = "none"
  /\ kind' = "none" /\ selector' = "none"
  /\ n_simulations' = 0 /\ batch_size' = 0 /\ update_frequency' = 0 /\ burn_in' = 0
  /\ current_iteration' = 0 /\ is_running' = FALSE
  /\ results' = NoResults /\ convergence_history' = <<>>
  /\ batches' = 0 /\ last_batch' = 0 /\ merged' = 0 /\ snapshots' = <<>>
  /\ exit_reason' = "none" /\ stop_at_boundary' = FALSE
  /\ final' = NoFinal

\* Variant: the session flag left as it is.
FinallyKeepsFlag ==
  /\ ws_is_running' = ws_is_running
  /\ current_simulation' = FALSE
  /\ Discarded
  /\ epc' = "recv"

\* The finally clause of start_simulation: self.is_running = False;
\* self.current_simulation = None, which drops the estimator.
Finally ==
  /\ ws_is_running' = FALSE
  /\ current_simulation' = FALSE
  /\ Discarded
  /\ epc' = "recv"

\* disconnect()
disconnect ==
  /\ ws_is_running' = FALSE
  /\ is_running' = IF current_simulation THEN FALSE ELSE is_running

\* Variant: no request is turned away.
StartRejectedNever(running) == FALSE

\* start_simulation: if self.is_running:
StartRejected(running) == running

\* start_simulation(data) for a known simulation type, up to its first
\* `async for` step.  A constructor that raises does so outside the try block:
\* websocket_endpoint catches the exception, calls disconnect() and ends.
start_simulation ==
  IF StartRejected(ws_is_running)
    THEN /\ outbox' = Append(outbox, Msg("error_already_running", 0))
         /\ UNCHANGED <<cfgVars, engineVars, ghostVars, final, construct_error, runs,
                        ws_is_running, current_simulation, epc, stop_sent_at>>
    ELSE \E c \in SmallConfigs :
           IF ConstructRaises(c.kind, c.selector)
             THEN /\ construct_error' = TRUE
                  /\ runs' = runs + 1
                  /\ disconnect
                  /\ epc' = "closed"
                  /\ UNCHANGED <<cfgVars, pc, current_iteration, results, convergence_history,
                                 ghostVars, final, current_simulation, outbox, stop_sent_at>>
             ELSE /\ Construct(c)
                  /\ current_simulation' = TRUE
                  /\ ws_is_running' = TRUE
                  /\ outbox' = <<Msg("simulation_started", 0)>>
                  /\ epc' = "iter"
                  /\ stop_sent_at' = -1

\* receive_json returns a start_simulation message.  websocket_endpoint awaits
\* handle_message, so it is back at receive_json only after start_simulation
\* has returned.
RecvStart ==
  /\ driver = "session" /\ epc = "recv"
  /\ inbox # <<>> /\ Head(inbox) = "start_simulation"
  /\ inbox' = Tail(inbox)
  /\ start_simulation
  /\ UNCHANGED <<driver, unitVars>>

\* A yielded snapshot reaches the `async for` body: break when the session
\* flag is off, else send the update and sleep 0.01 s.
OnResult ==
  /\ driver = "session" /\ epc = "iter" /\ pc = "yield"
  /\ IF ~ws_is_running
       THEN /\ Finally
            /\ UNCHANGED outbox
       ELSE /\ outbox' = Append(outbox,
                           Msg("simulation_update", snapshots[Len(snapshots)].iteration))
            /\ epc' = "sent"
            /\ UNCHANGED <<cfgVars, engineVars, ghostVars, final, ws_is_running,
                           current_simulation>>
  /\ UNCHANGED <<driver, unitVars, construct_error, runs, inbox, stop_sent_at>>

\* Variant: the completion message sent whatever the session flag.
CompletionDueAlways(running) == TRUE

\* start_simulation, after the loop: if self.is_running:
CompletionDue(running) == running

\* The generator is exhausted: simulation_complete with get_final_results()
\* when the session flag is still on, then finally.
OnExhausted ==
  /\ driver = "session" /\ epc = "iter" /\ pc = "done"
  /\ outbox' = IF CompletionDue(ws_is_running)
                 THEN Append(outbox, Msg("simulation_complete",
                        get_final_results(kind, current_iteration, results,
                                          convergence_history).total_iterations))
                 ELSE outbox
  /\ Finally
  /\ UNCHANGED <<driver, unitVars, construct_error, runs, inbox, stop_sent_at>>

\* The generator raised: except Exception sends the error, then finally.
OnError ==
  /\ driver = "session" /\ epc = "iter" /\ pc = "failed"
  /\ outbox' = Append(outbox, Msg("error_simulation", 0))
  /\ Finally
  /\ UNCHANGED <<driver, unitVars, construct_error, runs, inbox, stop_sent_at>>

\* stop_simulation()
stop_simulation ==
  IF ws_is_running /\ current_simulation
    THEN /\ ws_is_running' = FALSE
         /\ is_running' = FALSE
         /\ outbox' = Append(outbox, Msg("simulation_stopped", 0))
    ELSE UNCHANGED <<ws_is_running, is_running, outbox>>

\* receive_json returns a stop_simulation message: stop_simulation().
RecvStop ==
  /\ driver = "session" /\ epc = "recv"
  /\ inbox # <<>> /\ Head(inbox) = "stop_simulation"
  /\ inbox' = Tail(inbox)
  /\ stop_simulation
  /\ UNCHANGED <<driver, unitVars, cfgVars, pc, current_iteration, results, convergence_history,
                 ghostVars, final, construct_error, runs, current_simulation, epc, stop_sent_at>>

\* receive_json raises WebSocketDisconnect: disconnect(), and the endpoint ends.
Disconnect ==
  /\ driver = "session" /\ epc = "recv"
  /\ disconnect
  /\ epc' = "closed"
  /\ UNCHANGED <<driver, unitVars, cfgVars, pc, current_iteration, results, convergence_history,
                 ghostVars, final, construct_error, runs, current_simulation, inbox, outbox,
                 stop_sent_at>>

SessionNext ==
  \/ ClientSend \/ RecvStart \/ OnResult \/ OnExhausted \/ OnError \/ RecvStop \/ Disconnect

\* ------------------------------------------------------------ specifications
Next == CallerConstruct \/ EngineNext \/ SessionNext

Spec == Init /\ [][Next]_vars

\* The run loop on inputs large enough to fill the stored lists.
BigInit == driver = "caller" /\ EngineIdle /\ SessionIdle /\ UnitIdle

BigNext == CallerConstructBig \/ EngineNext

BigSpec == BigInit /\ [][BigNext]_vars

\* ------------------------------------------------------------ properties
Ceil(a, b) == (a + b - 1) \div b

Exists == pc # "none"

\* The counter every estimator adds the batch size to.
TrialCount(k, res) == IF k = "markov" THEN res.total_proposed ELSE TrialBasis(k, res)

\* C1: a pass of the loop in which nothing raises appends one history entry
\* (the new iteration count with the statistics of the merged state) and
\* yields one snapshot exactly when the new iteration count is a multiple of
\* update_frequency or equals n_simulations; a pass where it is neither, and
\* every step that is no pass, leaves both as they were.
C1_SnapshotIffDue ==
  [][(Exists /\ pc' # "none") =>
       LET pass == batches' = batches + 1 /\ pc' # "failed"
           due == \/ current_iteration' % update_frequency = 0
                  \/ current_iteration' = n_simulations
           entry == [iteration |-> current_iteration',
                     basis |-> TrialBasis(kind, results')]
       IN IF pass /\ due
            THEN /\ convergence_history' = Append(convergence_history, entry)
                 /\ Len(snapshots') = Len(snapshots) + 1
                 /\ snapshots'[Len(snapshots')].iteration = current_iteration'
                 /\ pc' = "yield"
            ELSE /\ convergence_history' = convergence_history
                 /\ snapshots' = snapshots
                 /\ pc' # "yield" \/ pc = "yield"]_vars

C1_Witness ==
  /\ pc = "yield" /\ batches = 3
  /\ Len(snapshots) = 2
  /\ current_iteration = n_simulations
  /\ current_iteration % update_frequency # 0

\* C2: the iteration counter stays within 0..n_simulations, the stored
\* batch_size is at least 1 and at most n_simulations, and every
\* simulate_batch call gets min(batch_size, n_simulations - current_iteration),
\* which is at least 1.
C2_CounterAndBatchBounds ==
  Exists =>
    /\ 0 <= current_iteration /\ current_iteration <= n_simulations
    /\ 1 <= batch_size /\ batch_size <= n_simulations
    /\ batches > 0 =>
         LET before == IF exit_reason = "failed_batch" THEN current_iteration
                       ELSE current_iteration - last_batch
             remaining == n_simulations - before
         IN /\ last_batch >= 1
            /\ last_batch = IF batch_size <= remaining THEN batch_size ELSE remaining

C2_Witness ==
  /\ pc = "yield" /\ batches = 2
  /\ last_batch < batch_size
  /\ current_iteration = n_simulations

\* C3: a run makes at most ceil(n_simulations / batch_size) passes, and a run
\* that returns with no stop() taken at a batch boundary and no exception has
\* made exactly that many and has current_iteration = n_simulations.
C3_CompletesInCeilBatches ==
  Exists =>
    /\ batches <= Ceil(n_simulations, batch_size)
    /\ (pc = "done" /\ ~stop_at_boundary) =>
         /\ exit_reason = "completed"
         /\ current_iteration = n_simulations
         /\ batches = Ceil(n_simulations, batch_size)

C3_Witness ==
  /\ pc = "done" /\ ~stop_at_boundary
  /\ batches = 2 /\ n_simulations = 3 /\ batch_size = 2

\* C4: once stop() has been called while run() was suspended at the yield or
\* at sleep(0), no step runs another batch or yields another snapshot, and the
\* while test that follows ends the run.
C4_NoBatchAfterStop ==
  [][stop_at_boundary =>
       /\ batches' = batches
       /\ snapshots' = snapshots
       /\ convergence_history' = convergence_history
       /\ pc = "loop" => pc' = "done"]_vars

C4_Witness ==
  /\ stop_at_boundary /\ pc = "done"
  /\ exit_reason = "stopped"
  /\ batches = 1 /\ snapshots = <<>>

\* C5: when the client has sent stop_simulation during the connection's run,
\* the run goes at most one batch beyond the iteration count of that moment.
C5_StopEndsRunAtNextBoundary ==
  (driver = "session" /\ Exists /\ stop_sent_at >= 0) =>
     current_iteration <= stop_sent_at + batch_size

C7_FailedRunNeverReported ==
  /\ exit_reason \in {"failed_batch", "failed_stats"} => final.status # "ok"
  /\ \A i, j \in 1..Len(outbox) :
       ~(outbox[i].type = "error_simulation" /\ outbox[j].type = "simulation_complete")

\* C8: no estimator object exists whose selector name its class does not know.
C8_UnknownSelectorRejected ==
  Exists => selector \in Recognized(kind)

\* C9: no stored list is longer than the limit its estimator's code names.
C9_StoredWithinCap ==
  /\ kind = "pi" => results.sample_points <= PiMaxVizPoints
  /\ kind = "integration" => results.sample_points <= IntegrationMaxPoints
  /\ kind = "option-pricing" => results.sample_paths <= OptionMaxPaths
  /\ kind = "hypothesis" =>
       /\ results.p_values <= HypothesisMaxStored
       /\ results.test_statistics <= HypothesisMaxStored
       /\ results.decisions <= HypothesisMaxStored

\* C10: while the estimator exists its history has one entry per snapshot
\* yielded, with strictly increasing iteration values, and a step either
\* leaves the history as it was or adds one entry behind the old ones.
C10_HistoryAppendOnly ==
  [][pc' # "none" =>
       /\ Len(convergence_history') = Len(snapshots')
       /\ \A i \in 1..Len(convergence_history') :
            /\ convergence_history'[i].iteration = snapshots'[i].iteration
            /\ i > 1 => convergence_history'[i - 1].iteration
                          < convergence_history'[i].iteration
       /\ Exists =>
            \/ convergence_history' = convergence_history
            \/ /\ Len(convergence_history') = Len(convergence_history) + 1
               /\ SubSeq(convergence_history', 1, Len(convergence_history))
                    = convergence_history]_vars

C10_Witness ==
  /\ pc = "sleep"
  /\ Len(convergence_history) = 2
  /\ batches = 3

\* ------------------------------------------------------------ get_convergence_data
MaxHistory == 15   \* longest convergence_history the downsampling is applied to
MaxPoints == 8     \* largest max_points argument

\* A history of L entries; entry i carries iteration i, so that an entry names
\* its own position.
HistoryOfLength(L) == [i \in 1..L |-> [iteration |-> i, basis |-> i]]

DownsampleInit ==
  /\ driver = "caller" /\ EngineIdle /\ SessionIdle
  /\ SeedIdle
  /\ args \in {[fn |-> "get_convergence_data", history |-> HistoryOfLength(L), max_points |-> m] :
                 L \in 0..MaxHistory, m \in 2..MaxPoints}
  /\ ret = NoRet /\ est = NoEst

\* sim.get_convergence_data(max_points)
ApplyDownsample ==
  /\ args.fn = "get_convergence_data" /\ ret = NoRet
  /\ ret' = [status |-> "returned",
             value |-> get_convergence_data(args.history, args.max_points)]
  /\ UNCHANGED <<driver, cfgVars, engineVars, ghostVars, final, construct_error, runs,
                 sessionVars, args, est, seedVars>>

DownsampleNext == ApplyDownsample

DownsampleSpec == DownsampleInit /\ [][DownsampleNext]_vars

\* C11: get_convergence_data(max_points), for a history of any length L >= 0
\* and max_points >= 2, returns at most max_points entries; it returns the
\* history itself when L <= max_points; when L > max_points it returns
\* max_points entries of the history, the first being the first entry and the
\* last the last entry, at strictly increasing positions whose consecutive
\* distances are (L-1) div (max_points-1) or one more.
C11_DownsampleKeepsEnds ==
  ret.status = "returned" =>
    LET h == args.history
        L == Len(h)
        m == args.max_points
        out == ret.value
        step == (L - 1) \div (m - 1)
    IN /\ Len(out) <= m
       /\ L <= m => out = h
       /\ L > m =>
            /\ Len(out) = m
            /\ out[1] = h[1]
            /\ out[m] = h[L]
            /\ \A j \in 1..m : out[j] = h[out[j].iteration]
            /\ \A j \in 1..(m - 1) :
                 out[j + 1].iteration - out[j].iteration \in {step, step + 1}

\* A history longer than max_points has been downsampled with uneven distances.
C11_Witness ==
  /\ ret.status = "returned"
  /\ Len(args.history) > args.max_points
  /\ Len(ret.value) = args.max_points
  /\ \E j \in 1..(args.max_points - 2) :
       ret.value[j + 1].iteration - ret.value[j].iteration
         # ret.value[j + 2].iteration - ret.value[j + 1].iteration

\* ------------------------------------------------------------ confidence intervals
\* Numbers of a statistics map are integers counted in 1/unit; a standard error
\* is kept as sqrt(rad)/den, which is what np.sqrt and np.std return.
MaxEst == 1        \* estimates fed to the interval helper range over -MaxEst..MaxEst
MaxStdErr == 2     \* standard errors fed to the interval helper range over 0..MaxStdErr
MaxLoss == 1       \* losses of the accumulated sample range over 0..MaxLoss
MaxLosses == 2     \* largest accumulated loss sample
NBootstrap == 2    \* bootstrap resamples modelled (n_bootstrap)

ZDen == 125        \* z scores are counted in 1/125: 1.96 = 245/125, 2.576 = 322/125

\* Variant: the 95% score whatever the confidence.
z_score_always_95(confidence) == 245

\* z_score = 1.96 if confidence == 0.95 else 2.576   (confidence in percent)
z_score(confidence) == IF confidence = 95 THEN 245 ELSE 322

\* The integer square root, and the test for an exact one.
ISqrt(v) == CHOOSE r \in 0..v : r * r <= v /\ v < (r + 1) * (r + 1)

\* calculate_confidence_interval(estimate, std_error, confidence), for whole
\* estimate and std_error; the statistics map the callers build around it.
calculate_confidence_interval(estimate, std_error, confidence) ==
  [unit |-> ZDen,
   estimate |-> ZDen * estimate,
   std_error |-> [rad |-> std_error * std_error, den |-> 1],
   lower_ci |-> ZDen * estimate - z_score(confidence) * std_error,
   upper_ci |-> ZDen * estimate + z_score(confidence) * std_error]

\* The map every calculate_statistics returns while its accumulator is empty.
ZeroStatistics ==
  [unit |-> 1, estimate |-> 0, std_error |-> [rad |-> 0, den |-> 1],
   lower_ci |-> 0, upper_ci |-> 0]

Sorted(s) == SortSeq(s, LAMBDA a, b : a < b)

\* np.percentile(a, 100*num/den), linear interpolation; the result is counted
\* in 1/den of the unit of a.
np_percentile(a, num, den) ==
  LET s == Sorted(a)
      idx == num * (Len(s) - 1)
      i == idx \div den
      f == idx % den
  IN IF f = 0 THEN den * s[i + 1]
     ELSE den * s[i + 1] + f * (s[i + 2] - s[i + 1])

SeqSum(s) ==
  LET F[i \in 0..Len(s)] == IF i = 0 THEN 0 ELSE F[i - 1] + s[i]
  IN F[Len(s)]

SetSum(f, S) ==
  LET F[T \in SUBSET S] == IF T = {} THEN 0
                           ELSE LET x == CHOOSE y \in T : TRUE IN f[x] + F[T \ {x}]
  IN F[S]

\* Variant: the mean of the losses below the estimate.
expected_shortfall_below(losses, var_estimate) ==
  LET beyond == {i \in 1..Len(losses) : 20 * losses[i] < var_estimate}
  IN IF beyond # {}
       THEN [num |-> SetSum([i \in beyond |-> losses[i]], beyond), den |-> Cardinality(beyond)]
       ELSE [num |-> var_estimate, den |-> 20]

\* losses_beyond_var = losses[losses > var_estimate]; its np.mean when it is not
\* empty, else var_estimate (counted in 1/20); the result is the fraction num/den.
expected_shortfall(losses, var_estimate) ==
  LET beyond == {i \in 1..Len(losses) : 20 * losses[i] > var_estimate}
  IN IF beyond # {}
       THEN [num |-> SetSum([i \in beyond |-> losses[i]], beyond), den |-> Cardinality(beyond)]
       ELSE [num |-> var_estimate, den |-> 20]

\* ValueAtRisk.calculate_statistics at confidence_level 0.95, for a non-empty
\* loss sample.  picks[j] is the j-th np.random.choice(n, n, replace=True).
\* var_estimate and the bootstrap estimates are counted in 1/20, their 2.5 and
\* 97.5 percentiles in 1/800; np.std(x) = sqrt(N*sum(x^2) - sum(x)^2) / N.
VaRStatistics(losses, picks) ==
  LET n == Len(losses)
      N == Len(picks)
      var_estimate == np_percentile(losses, 19, 20)
      var_estimates ==
        [j \in 1..N |-> np_percentile([i \in 1..n |-> losses[picks[j][i]]], 19, 20)]
      squares == [j \in 1..N |-> var_estimates[j] * var_estimates[j]]
  IN [unit |-> 800,
      estimate |-> 40 * var_estimate,
      std_error |-> [rad |-> N * SeqSum(squares) - SeqSum(var_estimates) * SeqSum(var_estimates),
                     den |-> 20 * N],
      lower_ci |-> np_percentile(var_estimates, 1, 40),
      upper_ci |-> np_percentile(var_estimates, 39, 40),
      expected_shortfall |-> expected_shortfall(losses, var_estimate)]

\* calculate_statistics of the five estimators that call the interval helper
\* with its default confidence, given the estimate and standard error they
\* computed from a non-empty accumulator.
HelperStatistics(estimate, std_error) == calculate_confidence_interval(estimate, std_error, 95)

LossSamples == UNION {[1..n -> 0..MaxLoss] : n \in 1..MaxLosses}

StatsInputs ==
  {[fn |-> "calculate_confidence_interval", estimate |-> e, std_error |-> s, confidence |-> c] :
     e \in (-MaxEst)..MaxEst, s \in 0..MaxStdErr, c \in {95, 99}}
  \cup {[fn |-> "calculate_statistics", kind |-> k, empty |-> TRUE] : k \in Kinds}
  \cup {[fn |-> "calculate_statistics", kind |-> k, empty |-> FALSE, estimate |-> e, std_error |-> s] :
          k \in Kinds \ {"risk"}, e \in (-MaxEst)..MaxEst, s \in 0..MaxStdErr}
  \cup {[fn |-> "calculate_statistics", kind |-> "risk", empty |-> FALSE, losses |-> l] :
          l \in LossSamples}

StatsInit ==
  /\ driver = "caller" /\ EngineIdle /\ SessionIdle
  /\ SeedIdle
  /\ args \in StatsInputs
  /\ ret = NoRet /\ est = NoEst

\* self.calculate_confidence_interval(estimate, std_error, confidence)
ApplyInterval ==
  /\ args.fn = "calculate_confidence_interval" /\ ret = NoRet
  /\ ret' = [status |-> "returned",
             value |-> calculate_confidence_interval(args.estimate, args.std_error,
                                                     args.confidence)]
  /\ UNCHANGED <<driver, cfgVars, engineVars, ghostVars, final, construct_error, runs,
                 sessionVars, args, est, seedVars>>

\* The index arrays the bootstrap of a sample of n losses can draw.
BootstrapPicks(n) == [1..NBootstrap -> [1..n -> 1..n]]

\* sim.calculate_statistics(); the bootstrap of ValueAtRisk draws its index
\* arrays inside the call.
ApplyStatistics ==
  /\ args.fn = "calculate_statistics" /\ ret = NoRet
  /\ IF args.empty
       THEN ret' = [status |-> "returned", value |-> ZeroStatistics]
       ELSE IF args.kind = "risk"
         THEN \E picks \in BootstrapPicks(Len(args.losses)) :
                ret' = [status |-> "returned", value |-> VaRStatistics(args.losses, picks)]
         ELSE ret' = [status |-> "returned",
                      value |-> HelperStatistics(args.estimate, args.std_error)]
  /\ UNCHANGED <<driver, cfgVars, engineVars, ghostVars, final, construct_error, runs,
                 sessionVars, args, est, seedVars>>

StatsNext == ApplyInterval \/ ApplyStatistics

StatsSpec == StatsInit /\ [][StatsNext]_vars

\* The confidence a returned interval was computed for.
ConfidenceOf(a) == IF a.fn = "calculate_confidence_interval" THEN a.confidence ELSE 95

\* lower_ci <= estimate <= upper_ci, and upper_ci - lower_ci = 2 * z * std_error
\* with z = 1.96 = 245/125 for confidence 0.95 and 2.576 = 322/125 otherwise.
IntervalAroundEstimate(st, confidence) ==
  LET r == ISqrt(st.std_error.rad)
  IN /\ st.lower_ci <= st.estimate
     /\ st.estimate <= st.upper_ci
     /\ r * r = st.std_error.rad
     /\ (st.upper_ci - st.lower_ci) * ZDen * st.std_error.den
          = 2 * (IF confidence = 95 THEN 245 ELSE 322) * r * st.unit

FromBootstrap(a) == a.fn = "calculate_statistics" /\ a.kind = "risk" /\ ~a.empty

MaxHalfSteps == 2  \* the grid is k \in -MaxHalfSteps..(MaxHalfSteps + 2)
MaxSteps == 3      \* steps taken by the chain
UDen == 4          \* uniform draws modelled: 0, 1/4, 2/4, 3/4

Grid == (-MaxHalfSteps)..(MaxHalfSteps + 2)

Distributions == {"normal", "gamma", "beta", "bimodal", "cauchy", "exponential"}

Abs(k) == IF k < 0 THEN -k ELSE k

\* exp(-x^2/2) at x = |k|/2, k = 0..5
NormalTable == <<1000, 882, 607, 325, 135, 44>>

\* x*exp(-x) at x = k/2, k = 1..5
GammaTable == <<303, 368, 335, 271, 205>>

\* 0.5*exp(-(x-2)^2/2) + 0.5*exp(-(x+2)^2/2) at x = |k|/2, k = 0..5
BimodalTable == <<135, 184, 309, 442, 500, 441>>

\* 1/(pi*(1+x^2)) at x = |k|/2, k = 0..5
CauchyTable == <<318, 255, 159, 98, 64, 44>>

\* exp(-x) at x = k/2, k = 1..5
ExponentialTable == <<607, 368, 223, 135, 82>>

\* self.target_distributions[d](k/2): each density is 0 outside its support.
target_density(d, k) ==
  CASE d = "normal" -> NormalTable[Abs(k) + 1]
    [] d = "gamma" -> IF k > 0 THEN GammaTable[k] ELSE 0
    [] d = "beta" -> IF 0 < k /\ k < 2 THEN 1875 ELSE 0
    [] d = "bimodal" -> BimodalTable[Abs(k) + 1]
    [] d = "cauchy" -> CauchyTable[Abs(k) + 1]
    [] d = "exponential" -> IF k > 0 THEN ExponentialTable[k] ELSE 0

\* Variant: the ratio taken the other way round.
acceptance_ratio_inverted(d, current, proposed) ==
  LET current_density == target_density(d, current)
      proposed_density == target_density(d, proposed)
  IN IF proposed_density > 0 THEN [num |-> current_density, den |-> proposed_density]
     ELSE IF current_density > 0 THEN [num |-> 1, den |-> 1] ELSE [num |-> 0, den |-> 1]

\* acceptance_ratio, as the fraction num/den
acceptance_ratio(d, current, proposed) ==
  LET current_density == target_density(d, current)
      proposed_density == target_density(d, proposed)
  IN IF current_density > 0 THEN [num |-> proposed_density, den |-> current_density]
     ELSE IF proposed_density > 0 THEN [num |-> 1, den |-> 1] ELSE [num |-> 0, den |-> 1]

\* Variant: a draw equal to the ratio accepts too.
AcceptsInclusive(d, current, proposed, u) ==
  LET r == acceptance_ratio(d, current, proposed)
  IN u * r.den <= UDen * r.num

\* if np.random.random() < acceptance_ratio, for the draw u/UDen
Accepts(d, current, proposed, u) ==
  LET r == acceptance_ratio(d, current, proposed)
  IN u * r.den < UDen * r.num

ChainInit ==
  /\ driver = "caller" /\ EngineIdle /\ SessionIdle
  /\ SeedIdle
  /\ args = NoArgs /\ ret = NoRet
  /\ est \in {[kind |-> "markov", distribution |-> d, current_state |-> x, accepted |-> 0,
               total_proposed |-> 0, from |-> x, proposed |-> x, moved |-> FALSE] :
                d \in Distributions, x \in Grid}

\* One pass of the loop of simulate_batch: the proposal, the uniform draw, the
\* accept-or-reject.  from, proposed and moved record the pass.
MHStep ==
  /\ est.kind = "markov"
  /\ est.total_proposed < MaxSteps
  /\ \E proposed \in Grid, u \in 0..(UDen - 1) :
       LET accept == Accepts(est.distribution, est.current_state, proposed, u)
       IN est' = [est EXCEPT
                    !.current_state = IF accept THEN proposed ELSE @,
                    !.accepted = IF accept THEN @ + 1 ELSE @,
                    !.total_proposed = @ + 1,
                    !.from = est.current_state,
                    !.proposed = proposed,
                    !.moved = accept]
  /\ UNCHANGED <<driver, cfgVars, engineVars, ghostVars, final, construct_error, runs,
                 sessionVars, args, ret, seedVars>>

ChainNext == MHStep

ChainSpec == ChainInit /\ [][ChainNext]_vars

\* C15 as stated: in every step, if target(proposed) >= target(current) the
\* move is accepted: the chain's state becomes the proposed value and the
\* accepted count goes up by one.
C15_UphillAlwaysAccepted ==
  [][(est'.total_proposed = est.total_proposed + 1
        /\ target_density(est.distribution, est'.proposed)
             >= target_density(est.distribution, est.current_state))
       => (est'.current_state = est'.proposed /\ est'.accepted = est.accepted + 1)]_vars

\* C15, amended: in every step, if target(proposed) >= target(current) and
\* target(proposed) > 0, the move is accepted whatever the uniform draw: the
\* chain's state becomes the proposed value and the accepted count goes up by
\* one.  (When both densities are 0 the ratio is 0 and the move is rejected.)
C15_UphillInsideSupportAccepted ==
  [][(est'.total_proposed = est.total_proposed + 1
        /\ target_density(est.distribution, est'.proposed)
             >= target_density(est.distribution, est.current_state)
        /\ target_density(est.distribution, est'.proposed) > 0)
       => (est'.current_state = est'.proposed /\ est'.accepted = est.accepted + 1)]_vars

\* A move to a different value of equal or higher positive density has been
\* accepted from a value of positive density.
C15_Witness ==
  /\ est.kind = "markov"
  /\ est.total_proposed > 0
  /\ est.moved /\ est.proposed # est.from
  /\ est.current_state = est.proposed
  /\ target_density(est.distribution, est.from) > 0
  /\ target_density(est.distribution, est.proposed)
       >= target_density(est.distribution, est.from)

\* ------------------------------------------------------------ burn-in
\* C16: a MarkovChain's step budget is the requested trial count plus burn_in,
\* every step is recorded in the trace buffer, and a step is recorded in the
\* statistics pool exactly when the global count of steps exceeds burn_in, so
\* that a completed run leaves exactly the requested number of samples in the
\* pool, for every batch_size and burn_in.
C16_PoolHoldsRequested ==
  (kind = "markov" /\ pc = "done" /\ exit_reason = "completed") =>
    /\ results.total_proposed = n_simulations
    /\ results.states = n_simulations
    /\ results.samples = n_simulations - burn_in

\* ------------------------------------------------------------ effective sample size
\* A pool is a sequence over PoolValues.  With n = len(samples), S = sum(samples)
\* and d[i] = n*samples[i] - S, the autocorrelation at lag k is
\*   c_k = mean((samples[:-k]-mean)*(samples[k:]-mean)) / var
\*       = n * sum(d[i]*d[i+k]) / ((n-k) * sum(d[i]^2)),
\* so every quantity of _calculate_ess is a fraction of integers.
MaxPool == 12      \* largest pool _calculate_ess is applied to

PoolValues == {0, 1}

Pools == UNION {[1..n -> PoolValues] : n \in 1..MaxPool}

Deviations(samples) ==
  LET n == Len(samples)
      S == SeqSum(samples)
  IN [i \in 1..n |-> n * samples[i] - S]

\* n^3 * np.var(samples)
VarTimesN3(samples) ==
  LET d == Deviations(samples)
  IN SeqSum([i \in 1..Len(samples) |-> d[i] * d[i]])

\* n^2 * sum((samples[:-lag] - mean) * (samples[lag:] - mean))
LagProduct(samples, lag) ==
  LET d == Deviations(samples)
  IN SeqSum([i \in 1..(Len(samples) - lag) |-> d[i] * d[i + lag]])

\* max_lag = min(int(n / 4), 1000)
max_lag(n) == Min(n \div 4, 1000)

\* abs(c_k) < 0.05
Negligible(samples, lag) ==
  20 * Len(samples) * Abs(LagProduct(samples, lag))
    < (Len(samples) - lag) * VarTimesN3(samples)

\* The lags k >= 1 whose c_k the loop appends to acf: lag k is reached when no
\* earlier lag was negligible (a negligible c_k is appended, then the loop breaks).
AcfLags(samples) ==
  {k \in 1..(max_lag(Len(samples)) - 1) :
     \A j \in 1..(k - 1) : ~Negligible(samples, j)}

\* The product of (n - k) over the lags the loop can reach.
LagDen(n) ==
  LET F[k \in 0..n] == IF k = 0 THEN 1 ELSE F[k - 1] * (n - k)
  IN F[IF max_lag(n) >= 1 THEN max_lag(n) - 1 ELSE 0]

\* sum_acf = 1 + 2 * sum(acf[1:]), as the fraction num/den with
\* den = VarTimesN3 * LagDen > 0 (only used when var # 0).
sum_acf(samples) ==
  LET n == Len(samples)
      V == VarTimesN3(samples)
      L == LagDen(n)
      lags == AcfLags(samples)
      term == [k \in lags |-> n * LagProduct(samples, k) * (L \div (n - k))]
  IN [num |-> V * L + 2 * SetSum(term, lags), den |-> V * L]

\* Variant: the division done whatever the sign of sum_acf.
ess_from_sum_unguarded(n, sum) == [num |-> n * sum.den, den |-> sum.num]

\* ess = n / sum_acf if sum_acf > 0 else n; return min(ess, n)
ess_from_sum(n, sum) ==
  IF sum.num > 0
    THEN IF n * sum.den <= n * sum.num THEN [num |-> n * sum.den, den |-> sum.num]
         ELSE [num |-> n, den |-> 1]
    ELSE [num |-> n, den |-> 1]

\* Variant: no sentinel for a pool without variance; c_k = 0/0 is nan, no
\* comparison with nan is true, and the call returns n.
calculate_ess_no_sentinel(samples) ==
  LET n == Len(samples)
  IN IF n < 10 THEN [num |-> n, den |-> 1]
     ELSE IF VarTimesN3(samples) = 0 THEN [num |-> n, den |-> 1]
     ELSE ess_from_sum(n, sum_acf(samples))

\* _calculate_ess(samples), as the fraction num/den
calculate_ess(samples) ==
  LET n == Len(samples)
  IN IF n < 10 THEN [num |-> n, den |-> 1]
     ELSE IF VarTimesN3(samples) = 0 THEN [num |-> 1, den |-> 1]
     ELSE ess_from_sum(n, sum_acf(samples))

\* The lags k >= 1 at which a call of _calculate_ess computes c_k: none when it
\* returns before the loop.
EvaluatedLags(samples) ==
  IF Len(samples) < 10 \/ VarTimesN3(samples) = 0 THEN {} ELSE AcfLags(samples)

EssInit ==
  /\ driver = "caller" /\ EngineIdle /\ SessionIdle
  /\ SeedIdle
  /\ args \in {[fn |-> "_calculate_ess", samples |-> s] : s \in Pools}
  /\ ret = NoRet /\ est = NoEst

\* self._calculate_ess(samples); evaluated records the lags the call computed
\* an autocorrelation for.
ApplyEss ==
  /\ args.fn = "_calculate_ess" /\ ret = NoRet
  /\ ret' = [status |-> "returned", value |-> calculate_ess(args.samples),
             evaluated |-> EvaluatedLags(args.samples)]
  /\ UNCHANGED <<driver, cfgVars, engineVars, ghostVars, final, construct_error, runs,
                 sessionVars, args, est, seedVars>>

EssNext == ApplyEss

EssSpec == EssInit /\ [][EssNext]_vars

\* C17: _calculate_ess on a pool of size n returns n when n < 10; its result
\* is a number that never exceeds n; and when the pool varies and the
\* autocorrelation sum 1 + 2*sum(acf[1:]) is not positive, the result is n.
C17_EssAtMostPoolSize ==
  ret.status = "returned" =>
    LET n == Len(args.samples)
        ess == ret.value
    IN /\ ess.den > 0
       /\ ess.num <= n * ess.den
       /\ n < 10 => ess.num = n * ess.den
       /\ (n >= 10 /\ VarTimesN3(args.samples) # 0 /\ sum_acf(args.samples).num <= 0)
            => ess.num = n * ess.den

\* _calculate_ess has returned n for a pool of at least 10 samples whose
\* autocorrelation sum is negative.
C17_Witness ==
  /\ ret.status = "returned"
  /\ Len(args.samples) >= 10
  /\ VarTimesN3(args.samples) # 0
  /\ sum_acf(args.samples).num < 0
  /\ ret.value = [num |-> Len(args.samples), den |-> 1]

\* ------------------------------------------------------------ PiEstimation
\* A batch's points are modelled by whether each lies in the unit circle
\* (distances_squared <= 1).
MaxPiBatch == 3    \* largest batch handed to PiEstimation.simulate_batch
MaxPiPoints == 13  \* points drawn by one PiEstimation

\* Variant: every point inside the circle counted twice.
CountInsideTwice(within) == 2 * Cardinality({i \in DOMAIN within : within[i]})

\* inside = np.sum(distances_squared <= 1)
CountInside(within) == Cardinality({i \in DOMAIN within : within[i]})

\* PiEstimation.simulate_batch(n) for the points drawn
pi_simulate_batch(res, n, within) ==
  [inside_circle |-> CountInside(within),
   total_points |-> n,
   sample_points |-> CappedSample(res.sample_points, n, PiBatchVizPoints, PiMaxVizPoints)]

\* PiEstimation.calculate_statistics: the estimate 4 * inside_circle / total_points
\* as the fraction num/den, 0.0 when no point has been drawn.
pi_calculate_statistics(res) ==
  IF res.total_points = 0 THEN [estimate |-> [num |-> 0, den |-> 1]]
  ELSE [estimate |-> [num |-> 4 * res.inside_circle, den |-> res.total_points]]

PiInit ==
  /\ driver = "caller" /\ EngineIdle /\ SessionIdle
  /\ SeedIdle
  /\ args = NoArgs /\ ret = NoRet
  /\ est = [kind |-> "pi",
            results |-> [inside_circle |-> 0, total_points |-> 0, sample_points |-> 0]]

\* batch = await sim.simulate_batch(n); sim.update_results(batch)
PiBatch ==
  /\ est.kind = "pi"
  /\ \E n \in 1..MaxPiBatch :
       /\ est.results.total_points + n <= MaxPiPoints
       /\ \E within \in [1..n -> BOOLEAN] :
            est' = [est EXCEPT
                      !.results = update_results(@, pi_simulate_batch(@, n, within))]
  /\ ret' = NoRet
  /\ UNCHANGED <<driver, cfgVars, engineVars, ghostVars, final, construct_error, runs,
                 sessionVars, args, seedVars>>

\* sim.calculate_statistics()
PiStatistics ==
  /\ est.kind = "pi" /\ ret = NoRet
  /\ ret' = [status |-> "returned", value |-> pi_calculate_statistics(est.results)]
  /\ UNCHANGED <<driver, cfgVars, engineVars, ghostVars, final, construct_error, runs,
                 sessionVars, args, est, seedVars>>

PiNext == PiBatch \/ PiStatistics

PiSpec == PiInit /\ [][PiNext]_vars

\* C19: in PiEstimation, after any number of batches of any sizes,
\* 0 <= inside_circle <= total_points, so that every reported estimate
\* 4*inside_circle/total_points lies in [0, 4]; the estimate is 0 when no point
\* has been drawn.
C19_EstimateWithinZeroFour ==
  /\ 0 <= est.results.inside_circle
  /\ est.results.inside_circle <= est.results.total_points
  /\ ret.status = "returned" =>
       /\ ret.value.estimate.den > 0
       /\ 0 <= ret.value.estimate.num
       /\ ret.value.estimate.num <= 4 * ret.value.estimate.den
       /\ ret.value.estimate.num * est.results.total_points
            = 4 * est.results.inside_circle * ret.value.estimate.den
       /\ est.results.total_points = 0 => ret.value.estimate.num = 0

\* Statistics reported after several batches in which some points fell inside
\* the circle and some outside.
C19_Witness ==
  /\ ret.status = "returned"
  /\ est.results.total_points > MaxPiBatch
  /\ 0 < est.results.inside_circle
  /\ est.results.inside_circle < est.results.total_points
  /\ 0 < ret.value.estimate.num
  /\ ret.value.estimate.num < 4 * ret.value.estimate.den

\* ------------------------------------------------------------ the shared generator
\* np.random is one generator for the whole process.  Its state is the stream
\* it was last seeded with (-1: as numpy seeded it at import) and the number of
\* values drawn since.  A trial is modelled as one draw and an estimate as the
\* sum of the values its trials drew; ValueAtRisk.calculate_statistics draws
\* once more for its bootstrap, the other estimators' statistics draw nothing.
MaxSeedN == 2      \* n_simulations, batch_size and update_frequency range over 1..MaxSeedN

Seeds == {0, 1}

\* The two ways an estimator class uses the generator outside simulate_batch.
SeedKinds == {"pi", "risk"}

\* The value at position pos of the stream of a seed.
StreamValue(stream, pos) == ((stream + 3) * (pos + 1) + pos * pos) % 5

\* The sum of the next k values of the generator.
Drawn(rng, k) ==
  LET F[i \in 0..k] == IF i = 0 THEN 0 ELSE F[i - 1] + StreamValue(rng.stream, rng.pos + i - 1)
  IN F[k]

Advance(rng, k) == [rng EXCEPT !.pos = @ + k]

\* Variant: the constructor leaves the generator as it is.
ReseedNever(rng, c) == rng

\* BaseSimulation.__init__: if seed is not None: np.random.seed(seed)
Reseed(rng, c) == IF c.seeded THEN [stream |-> c.seed, pos |-> 0] ELSE rng

\* Draws of one calculate_statistics call.
StatDraws(k) == IF k = "risk" THEN 1 ELSE 0

\* The configurations of the execution under observation: seeded.
SeededConfigs ==
  [kind : SeedKinds, n : 1..MaxSeedN, b : 1..MaxSeedN, u : 1..MaxSeedN,
   seeded : {TRUE}, seed : Seeds]

\* The configurations of the other session's simulation: one batch, seeded or not.
OtherConfigs ==
  {c \in [kind : SeedKinds, n : 1..MaxSeedN, b : 1..MaxSeedN, u : 1..MaxSeedN,
          seeded : BOOLEAN, seed : Seeds] :
     c.b = c.n /\ c.u = c.n /\ (~c.seeded => c.seed = 0)}

NewExec(c) ==
  [pc |-> "running", cfg |-> c, current_iteration |-> 0, acc |-> 0, drawn |-> 0,
   log |-> <<>>, final |-> [estimate |-> -1, spread |-> -1]]

SeedInit ==
  /\ driver = "caller" /\ EngineIdle /\ SessionIdle
  /\ args = NoArgs /\ ret = NoRet /\ est = NoEst
  /\ SeedIdle

\* The first execution is constructed, alone in the process.
RefConstruct ==
  /\ \A who \in DOMAIN execs : execs[who].pc = "none"
  /\ \E c \in SeededConfigs :
       /\ execs' = [execs EXCEPT !["ref"] = NewExec(c)]
       /\ np_random' = Reseed(np_random, c)
  /\ UNCHANGED <<driver, cfgVars, engineVars, ghostVars, final, construct_error, runs,
                 sessionVars, args, ret, est>>

\* The second execution, of the same class with the same configuration and
\* seed, is constructed after the first has run to completion.
TestConstruct ==
  /\ execs["ref"].pc = "done" /\ execs["test"].pc = "none"
  /\ execs' = [execs EXCEPT !["test"] = NewExec(execs["ref"].cfg)]
  /\ np_random' = Reseed(np_random, execs["ref"].cfg)
  /\ UNCHANGED <<driver, cfgVars, engineVars, ghostVars, final, construct_error, runs,
                 sessionVars, args, ret, est>>

\* Another session constructs a simulation once the first execution is over:
\* before, or at a suspension point of, the second.
OtherConstruct ==
  /\ execs["ref"].pc = "done" /\ execs["other"].pc = "none"
  /\ \E c \in OtherConfigs :
       /\ execs' = [execs EXCEPT !["other"] = NewExec(c)]
       /\ np_random' = Reseed(np_random, c)
  /\ UNCHANGED <<driver, cfgVars, engineVars, ghostVars, final, construct_error, runs,
                 sessionVars, args, ret, est>>

\* One pass of run() of an execution, from the while test to its next
\* suspension point: the batch draws its trials and, when a snapshot is due,
\* calculate_statistics draws what it needs.
ExecBatch ==
  \E who \in DOMAIN execs :
    /\ execs[who].pc = "running"
    /\ execs[who].current_iteration < execs[who].cfg.n
    /\ LET e == execs[who]
           c == e.cfg
           nb == CurrentBatchSize(StoredBatchSize(c.b, c.n), c.n, e.current_iteration)
           cur == e.current_iteration + nb
           acc == e.acc + Drawn(np_random, nb)
           rng == Advance(np_random, nb)
           sd == IF EmitDue(cur, c.u, c.n) THEN StatDraws(c.kind) ELSE 0
           entry == [iteration |-> cur, estimate |-> acc, spread |-> Drawn(rng, sd)]
       IN /\ execs' = [execs EXCEPT ![who] =
                         [e EXCEPT !.current_iteration = cur,
                                   !.acc = acc,
                                   !.drawn = @ + nb + sd,
                                   !.log = IF EmitDue(cur, c.u, c.n) THEN Append(@, entry) ELSE @]]
          /\ np_random' = Advance(rng, sd)
    /\ UNCHANGED <<driver, cfgVars, engineVars, ghostVars, final, construct_error, runs,
                   sessionVars, args, ret, est>>

\* run() is exhausted and get_final_results() recomputes the statistics.
ExecFinish ==
  \E who \in DOMAIN execs :
    /\ execs[who].pc = "running"
    /\ execs[who].current_iteration = execs[who].cfg.n
    /\ LET e == execs[who]
           sd == StatDraws(e.cfg.kind)
       IN /\ execs' = [execs EXCEPT ![who] =
                         [e EXCEPT !.pc = "done",
                                   !.drawn = @ + sd,
                                   !.final = [estimate |-> e.acc,
                                              spread |-> Drawn(np_random, sd)]]]
          /\ np_random' = Advance(np_random, sd)
    /\ UNCHANGED <<driver, cfgVars, engineVars, ghostVars, final, construct_error, runs,
                   sessionVars, args, ret, est>>

SeedNext == RefConstruct \/ TestConstruct \/ OtherConstruct \/ ExecBatch \/ ExecFinish

SeedSpec == SeedInit /\ [][SeedNext]_vars

\* What an execution has let its caller see.
Observed(e) == [log |-> e.log, final |-> e.final, drawn |-> e.drawn]

\* C13: two executions of the same estimator class with the same configuration
\* and the same non-null seed, each constructed and run to completion with no
\* other simulation active in the process, draw the same number of values and
\* emit the same snapshots and the same final estimate.
C13_SameSeedSameRun ==
  (execs["test"].pc = "done" /\ execs["other"].pc = "none") =>
    Observed(execs["test"]) = Observed(execs["ref"])

\* A seeded ValueAtRisk of several batches has been executed twice, alone.
C13_Witness ==
  /\ execs["test"].pc = "done" /\ execs["other"].pc = "none"
  /\ execs["test"].cfg.kind = "risk"
  /\ Len(execs["test"].log) >= 2
  /\ Len(execs["ref"].log) >= 2

\* C14: sessions share no mutable state: the snapshots and the final result of
\* a seeded run are the same whether or not another session constructs or runs
\* a simulation, seeded or not, that interleaves with it at its suspension
\* points.
C14_SeededRunUnaffectedByOthers ==
  execs["test"].pc = "done" => Observed(execs["test"]) = Observed(execs["ref"])

\* ------------------------------------------------------------ start during a run
\* websocket_endpoint handles one message at a time, so through it
\* start_simulation is never entered during a run.  Here the handler is also
\* called directly on the SimulationWebSocket, once, while a run is suspended.
HandlerInit ==
  /\ driver \in {"caller", "session"}
  /\ EngineIdle /\ SessionIdle
  /\ args = [fn |-> "start_simulation", called |-> FALSE]
  /\ ret = NoRet /\ est = NoEst /\ SeedIdle

\* The running start_simulation coroutine is suspended: at the send of
\* simulation_started, at sleep(0) inside run(), or at send / sleep(0.01) in
\* the `async for` body.
RunSuspended ==
  /\ current_simulation
  /\ epc = "sent" \/ (epc = "iter" /\ pc \in {"new", "sleep"})

\* await simulation_ws.handle_message({'type': 'start_simulation', ...}),
\* called while the run is suspended.
DirectStart ==
  /\ driver = "session"
  /\ RunSuspended
  /\ ~args.called
  /\ args' = [args EXCEPT !.called = TRUE]
  /\ start_simulation
  /\ UNCHANGED <<driver, inbox, ret, est, seedVars>>

HandlerNext == Next \/ DirectStart

HandlerSpec == HandlerInit /\ [][HandlerNext]_vars

\* A step in which start_simulation was entered.
StartHandled ==
  \/ args' # args
  \/ (inbox # <<>> /\ Head(inbox) = "start_simulation" /\ inbox' = Tail(inbox))

\* C20: a session runs at most one simulation at a time: a start_simulation
\* request handled while the session's is_running flag is true is answered
\* with the 'Simulation already running' error and leaves is_running and the
\* current simulation unchanged; an estimator is constructed only when the
\* flag is false and the session holds no simulation.
C20_StartWhileRunningRejected ==
  [][StartHandled =>
       /\ ws_is_running =>
            /\ outbox' = Append(outbox, Msg("error_already_running", 0))
            /\ UNCHANGED <<ws_is_running, current_simulation, runs, cfgVars, engineVars>>
       /\ runs' # runs => (~ws_is_running /\ ~current_simulation /\ pc = "none")]_vars

\* A start request was turned away during a run, and the run has gone on to
\* its next snapshot.
C20_Witness ==
  /\ args.fn = "start_simulation" /\ args.called
  /\ ws_is_running /\ current_simulation
  /\ runs = 1
  /\ \E i \in 1..Len(outbox) :
       /\ outbox[i] = Msg("error_already_running", 0)
       /\ \E j \in (i + 1)..Len(outbox) : outbox[j].type = "simulation_update"

\* ------------------------------------------------------------ snapshots held by the consumer
\* A snapshot's 'convergence_history' as its holder reads it now: the engine's
\* own list when get_convergence_data returned that list, else the list built
\* at emission.  The snapshot's convergence_history field keeps the contents
\* at emission.
HeldHistory(s) == IF s.history_is_live THEN convergence_history ELSE s.convergence_history

\* C21: the convergence history a consumer reads in a snapshot it holds is the
\* history as it was when the snapshot was emitted, whatever batches have run
\* since.
C21_SnapshotHistoryFrozen ==
  \A i \in 1..Len(snapshots) : HeldHistory(snapshots[i]) = snapshots[i].convergence_history

\* C22: within one run the snapshots' iteration values are strictly
\* increasing; each snapshot's progress is its iteration over n_simulations,
\* greater than 0 and at most 1; a run that returned having done all its
\* trials has emitted at least one snapshot, its last snapshot has iteration
\* n_simulations and progress 1, and no other snapshot has that iteration.
C22_SnapshotsIncreaseToTotal ==
  Exists =>
    /\ \A i \in 1..Len(snapshots) :
         /\ i > 1 => snapshots[i - 1].iteration < snapshots[i].iteration
         /\ snapshots[i].progress.num = snapshots[i].iteration
         /\ snapshots[i].progress.den = n_simulations
         /\ 0 < snapshots[i].progress.num
         /\ snapshots[i].progress.num <= snapshots[i].progress.den
    /\ (pc = "done" /\ exit_reason = "completed") =>
         /\ Len(snapshots) >= 1
         /\ snapshots[Len(snapshots)].iteration = n_simulations
         /\ snapshots[Len(snapshots)].progress.num = snapshots[Len(snapshots)].progress.den
         /\ Cardinality({i \in 1..Len(snapshots) : snapshots[i].iteration = n_simulations}) = 1

\* A completed run whose last snapshot was due only because the trials were
\* used up, after an earlier one due by update_frequency.
C22_Witness ==
  /\ pc = "done" /\ exit_reason = "completed"
  /\ Len(snapshots) = 2
  /\ n_simulations % update_frequency # 0
  /\ snapshots[2].iteration = n_simulations
  /\ snapshots[1].progress.num < snapshots[1].progress.den

\* C23: for a pool of n >= 10 samples with non-zero variance, _calculate_ess
\* computes the autocorrelation at the lags 1, 2, ..., max_lag = min(n/4, 1000)
\* in this order until the first lag k with |c_k| < 0.05, that lag included
\* and no later one: lag k is evaluated exactly when k <= max_lag and no lag
\* before k was negligible.
C23_LagsUpToMaxLag ==
  (ret.status = "returned" /\ Len(args.samples) >= 10 /\ VarTimesN3(args.samples) # 0) =>
    ret.evaluated =
      {k \in 1..Min(Len(args.samples) \div 4, 1000) :
         \A j \in 1..(k - 1) :
           20 * Len(args.samples) * Abs(LagProduct(args.samples, j))
             >= (Len(args.samples) - j) * VarTimesN3(args.samples)}

\* ------------------------------------------------------------ MarkovChain.calculate_statistics
\* A MarkovChain driven pass by pass with update_frequency = batch_size, so
\* that every pass computes the statistics and yields.  The chain's values are
\* abstracted to the two points of PoolValues: an accepted proposal moves the
\* chain to the other point, a rejected one leaves it where it is.
MaxChainBatch == 4   \* the larger of the two batch sizes
MaxChainBurn == 2    \* the larger of the two burn_in values

\* MarkovChain.calculate_statistics: the zero map for an empty pool; else
\*   estimate = np.mean(samples)              = S / n
\*   variance = np.var(samples)               = VarTimesN3 / n^3
\*   std_error = sqrt(variance / ess) if ess > 0 else inf
\* kept as fractions, std_error as the radicand of the square root.  numpy
\* arithmetic on the float array returns nan or inf where a quotient is
\* undefined, and the one quotient of Python ints is guarded by
\* total_proposed > 0: no step of the function raises.
markov_calculate_statistics(res) ==
  IF res.samples = <<>>
    THEN [estimate |-> [num |-> 0, den |-> 1],
          std_error |-> [inf |-> FALSE, rad |-> [num |-> 0, den |-> 1]],
          effective_sample_size |-> [num |-> 0, den |-> 1],
          acceptance_rate |-> [num |-> 0, den |-> 1],
          actual_sample_size |-> 0]
    ELSE LET n == Len(res.samples)
             V == VarTimesN3(res.samples)
             ess == calculate_ess(res.samples)
         IN [estimate |-> [num |-> SeqSum(res.samples), den |-> n],
             std_error |-> IF ess.num > 0
                             THEN [inf |-> FALSE,
                                   rad |-> [num |-> V * ess.den, den |-> n * n * n * ess.num]]
                             ELSE [inf |-> TRUE, rad |-> [num |-> 0, den |-> 1]],
             effective_sample_size |-> ess,
             acceptance_rate |-> IF res.total_proposed > 0
                                   THEN [num |-> res.accepted, den |-> res.total_proposed]
                                   ELSE [num |-> 0, den |-> 1],
             actual_sample_size |-> n]

\* The values the chain takes in a batch: moves[i] tells whether step i was accepted.
ChainStates(current, moves) ==
  LET F[i \in 0..Len(moves)] ==
        IF i = 0 THEN current
        ELSE IF moves[i] THEN 1 - F[i - 1] ELSE F[i - 1]
  IN [i \in 1..Len(moves) |-> F[i]]

\* MarkovChain.simulate_batch(n) for the given accept/reject outcomes.
markov_simulate_batch(e, moves) ==
  LET states == ChainStates(e.current_state, moves)
  IN [samples |-> IF e.current_iteration >= e.burn_in THEN states ELSE <<>>,
      accepted |-> Cardinality({i \in 1..Len(moves) : moves[i]}),
      total_proposed |-> Len(moves),
      states |-> Len(moves)]

\* update_results for MarkovChain's accumulator: lists extend, numbers add.
markov_update_results(res, batch) ==
  [samples |-> res.samples \o batch.samples,
   accepted |-> res.accepted + batch.accepted,
   total_proposed |-> res.total_proposed + batch.total_proposed,
   states |-> res.states + batch.states]

\* MarkovChain(n_simulations = MaxPool - burn, batch_size = b,
\*             update_frequency = b, burn_in = burn), initial_value = 0.0
PoolRunInit ==
  /\ driver = "caller" /\ EngineIdle /\ SessionIdle
  /\ SeedIdle
  /\ args = NoArgs /\ ret = NoRet
  /\ est \in {[kind |-> "markov", n_simulations |-> MaxPool, batch_size |-> b,
               update_frequency |-> b, burn_in |-> burn, current_iteration |-> 0,
               current_state |-> 0, emitted |-> 0, pc |-> "loop",
               results |-> [samples |-> <<>>, accepted |-> 0, total_proposed |-> 0, states |-> 0]] :
                b \in {1, MaxChainBatch}, burn \in {0, MaxChainBurn}}

\* One pass of run() on the chain: simulate_batch, the counter, update_results,
\* calculate_statistics and the yield of the snapshot, whose statistics are ret.
PoolRunPass ==
  /\ est.kind = "markov" /\ est.pc = "loop"
  /\ LoopCond(est.current_iteration, est.n_simulations, TRUE)
  /\ LET nb == CurrentBatchSize(est.batch_size, est.n_simulations, est.current_iteration)
     IN \E moves \in [1..nb -> BOOLEAN] :
          LET states == ChainStates(est.current_state, moves)
              res == markov_update_results(est.results, markov_simulate_batch(est, moves))
              cur == est.current_iteration + nb
          IN /\ EmitDue(cur, est.update_frequency, est.n_simulations)
             /\ est' = [est EXCEPT !.current_state = states[nb],
                                   !.current_iteration = cur,
                                   !.results = res,
                                   !.emitted = @ + 1]
             /\ ret' = [status |-> "yielded", iteration |-> cur,
                        statistics |-> markov_calculate_statistics(res)]
  /\ UNCHANGED <<driver, cfgVars, engineVars, ghostVars, final, construct_error, runs,
                 sessionVars, args, seedVars>>

\* The while test fails: run() returns.
PoolRunExit ==
  /\ est.kind = "markov" /\ est.pc = "loop"
  /\ ~LoopCond(est.current_iteration, est.n_simulations, TRUE)
  /\ est' = [est EXCEPT !.pc = "done"]
  /\ UNCHANGED <<driver, cfgVars, engineVars, ghostVars, final, construct_error, runs,
                 sessionVars, args, ret, seedVars>>

PoolRunNext == PoolRunPass \/ PoolRunExit

PoolRunSpec == PoolRunInit /\ [][PoolRunNext]_vars

\* The pool has no variance: all its samples are the same value.
Constant(samples) == \A i, j \in 1..Len(samples) : samples[i] = samples[j]

\* C24: degenerate chain states do not end the run.  Every pass of the loop
\* yields its snapshot and leaves the run in its loop; the statistics of an
\* empty pool have estimate 0 and std_error 0; the statistics of a pool of at
\* least 10 samples that are all the same value have effective_sample_size 1
\* and std_error 0, and the value as their estimate.
C24_DegeneratePoolsReported ==
  [][est'.current_iteration # est.current_iteration =>
       LET st == ret'.statistics
           pool == est'.results.samples
       IN /\ ret'.status = "yielded"
          /\ ret'.iteration = est'.current_iteration
          /\ est'.emitted = est.emitted + 1
          /\ est'.pc = "loop"
          /\ pool = <<>> =>
               /\ st.estimate.num = 0
               /\ ~st.std_error.inf /\ st.std_error.rad.num = 0
          /\ (Len(pool) >= 10 /\ Constant(pool)) =>
               /\ st.effective_sample_size.num = st.effective_sample_size.den
               /\ ~st.std_error.inf /\ st.std_error.rad.num = 0
               /\ st.std_error.rad.den > 0
               /\ st.estimate.num = pool[1] * st.estimate.den]_vars

\* A run of one-step batches has completed that yielded snapshots from an
\* empty pool during burn-in and ended on a pool of 10 or more equal samples.
C24_Witness ==
  /\ est.kind = "markov" /\ est.pc = "done"
  /\ est.burn_in > 0
  /\ est.emitted = est.results.total_proposed
  /\ Len(est.results.samples) < est.results.total_proposed
  /\ Len(est.results.samples) >= 10
  /\ Constant(est.results.samples)
  /\ ret.status = "yielded"
  /\ ret.statistics.effective_sample_size = [num |-> 1, den |-> 1]

\* ------------------------------------------------------------ trial counts
\* C25: in the run of a freshly constructed estimator, between passes of the
\* loop the accumulated trial count equals the iteration counter:
\* total_points (Pi), count (Integration, OptionPricing), total_tests
\* (HypothesisTesting), total_proposed and the length of states (MarkovChain),
\* the lengths of returns, portfolio_values and losses (ValueAtRisk).
C25_TrialCountIsIteration ==
  Exists =>
    /\ kind = "pi" => results.total_points = current_iteration
    /\ kind \in {"integration", "option-pricing"} => results.count = current_iteration
    /\ kind = "hypothesis" => results.total_tests = current_iteration
    /\ kind = "markov" =>
         /\ results.total_proposed = current_iteration
         /\ results.states = current_iteration
    /\ kind = "risk" =>
         /\ results.returns = current_iteration
         /\ results.portfolio_values = current_iteration
         /\ results.losses = current_iteration

\* A ValueAtRisk run is between its second and third pass, the second batch
\* having been smaller than the first.
C25_Witness ==
  /\ kind = "risk" /\ pc = "loop"
  /\ batches = 2 /\ last_batch < batch_size
  /\ current_iteration = 3
  /\ results.losses = 3

\* ------------------------------------------------------------ the chain and the support
\* C26: in every step of the chain, from a value of positive target density a
\* proposal of zero density is rejected, so the value after the step has
\* positive density too; from a value of zero density the chain moves to the
\* proposal when the proposal has positive density and stays where it is when
\* it has not.
C26_ChainStaysInSupport ==
  [][est'.total_proposed = est.total_proposed + 1 =>
       LET current_density == target_density(est.distribution, est.current_state)
           proposed_density == target_density(est.distribution, est'.proposed)
       IN /\ (current_density > 0 /\ proposed_density = 0) =>
               (est'.current_state = est.current_state /\ est'.accepted = est.accepted)
          /\ current_density > 0 =>
               target_density(est.distribution, est'.current_state) > 0
          /\ (current_density = 0 /\ proposed_density > 0) =>
               est'.current_state = est'.proposed
          /\ (current_density = 0 /\ proposed_density = 0) =>
               est'.current_state = est.current_state]_vars

\* A chain inside the support that has accepted a move before has turned down
\* a proposal outside the support.
C26_Witness ==
  /\ est.kind = "markov"
  /\ est.total_proposed >= 2
  /\ est.accepted >= 1
  /\ ~est.moved
  /\ target_density(est.distribution, est.from) > 0
  /\ target_density(est.distribution, est.proposed) = 0
  /\ est.current_state = est.from

\* ------------------------------------------------------------ stop() before run()
\* A direct caller's stop() between the constructor and the first advance of
\* run() is noted in args.
EarlyStopInit ==
  /\ driver = "caller" /\ EngineIdle /\ SessionIdle
  /\ args = [fn |-> "stop", early |-> FALSE]
  /\ ret = NoRet /\ est = NoEst /\ SeedIdle

\* sim = SimulationClass(**params); sim.stop(), run() not yet advanced
EarlyStop ==
  /\ driver = "caller" /\ pc = "new"
  /\ ~args.early
  /\ is_running' = FALSE
  /\ args' = [args EXCEPT !.early = TRUE]
  /\ UNCHANGED <<driver, cfgVars, pc, current_iteration, results, convergence_history,
                 ghostVars, final, construct_error, runs, sessionVars, ret, est, seedVars>>

EarlyStopNext == CallerConstruct \/ EngineNext \/ EarlyStop

EarlyStopSpec == EarlyStopInit /\ [][EarlyStopNext]_vars

\* C27: the first advance of run() sets the running flag, whatever stop() did
\* to it before; so a run whose estimator was stopped before run() was first
\* advanced, and that has returned with no stop() taken at a batch boundary
\* and no exception, has made all its passes and done all its trials.
C27_StopBeforeRunHasNoEffect ==
  [][/\ (pc = "new" /\ pc' = "loop") => is_running'
     /\ (args'.early /\ pc' = "done" /\ ~stop_at_boundary') =>
          /\ exit_reason' = "completed"
          /\ current_iteration' = n_simulations'
          /\ batches' = Ceil(n_simulations', batch_size')]_vars

\* An estimator stopped before its run was first advanced has completed a run
\* of several passes.
C27_Witness ==
  /\ args.fn = "stop" /\ args.early
  /\ pc = "done" /\ ~stop_at_boundary
  /\ exit_reason = "completed"
  /\ batches >= 2

\* ------------------------------------------------------------ update_frequency and the draws
\* The second execution is constructed with the first one's class, seed,
\* n_simulations and batch_size and another update_frequency, after the first
\* has run to completion; no other simulation exists in the process.
TestConstructOtherFrequency ==
  /\ execs["ref"].pc = "done" /\ execs["test"].pc = "none"
  /\ \E u \in 1..MaxSeedN :
       /\ u # execs["ref"].cfg.u
       /\ execs' = [execs EXCEPT !["test"] = NewExec([execs["ref"].cfg EXCEPT !.u = u])]
       /\ np_random' = Reseed(np_random, execs["ref"].cfg)
  /\ UNCHANGED <<driver, cfgVars, engineVars, ghostVars, final, construct_error, runs,
                 sessionVars, args, ret, est>>

FrequencyNext == RefConstruct \/ TestConstructOtherFrequency \/ ExecBatch \/ ExecFinish

FrequencySpec == SeedInit /\ [][FrequencyNext]_vars

RunEndInit ==
  /\ driver = "session"
  /\ EngineIdle /\ SessionIdle
  /\ args = [fn |-> "stop_simulation", called |-> FALSE]
  /\ ret = NoRet /\ est = NoEst /\ SeedIdle

\* await simulation_ws.handle_message({'type': 'stop_simulation'}), called
\* while the run is suspended.
DirectStop ==
  /\ driver = "session"
  /\ RunSuspended
  /\ ~args.called
  /\ args' = [args EXCEPT !.called = TRUE]
  /\ stop_simulation
  /\ UNCHANGED <<driver, cfgVars, pc, current_iteration, results, convergence_history,
                 ghostVars, final, construct_error, runs, current_simulation, inbox, epc,
                 stop_sent_at, ret, est, seedVars>>

RunEndNext ==
  \/ RunEnter \/ LoopExit \/ Batch \/ BatchRaises \/ StatsRaises \/ ResumeYield \/ ResumeSleep
  \/ SessionNext
  \/ DirectStop

RunEndSpec == RunEndInit /\ [][RunEndNext]_vars

\* start_simulation is inside its try block.
InRun == epc \in {"iter", "sent"}

\* C29: every accepted start_simulation puts a new estimator in place: counter
\* 0, the constructor's accumulator, no history, no snapshot.  Whenever the
\* run inside start_simulation ends, by completion, after a stop or on an
\* error raised during the run, the session is left with is_running false and
\* no current simulation, and nothing of the estimator is kept; so a start
\* request received next is not turned away.
C29_RunStateNotReused ==
  [][/\ (runs' = runs + 1 /\ ~construct_error') =>
          /\ ~ws_is_running /\ ~current_simulation /\ pc = "none"
          /\ ws_is_running' /\ current_simulation'
          /\ pc' = "new" /\ current_iteration' = 0
          /\ results' = InitialResults(kind')
          /\ convergence_history' = <<>> /\ snapshots' = <<>>
     /\ (InRun /\ epc' = "recv") =>
          /\ ~ws_is_running' /\ ~current_simulation'
          /\ pc' = "none" /\ results' = NoResults /\ convergence_history' = <<>>
     /\ (epc = "recv" /\ inbox # <<>> /\ Head(inbox) = "start_simulation"
           /\ inbox' = Tail(inbox)) =>
          /\ runs' = runs + 1
          /\ outbox' # Append(outbox, Msg("error_already_running", 0))]_vars

\* A second run has been started on a connection whose first run was stopped
\* by a direct stop_simulation call.
C29_Witness ==
  /\ args.fn = "stop_simulation" /\ args.called
  /\ runs = 2 /\ ~construct_error
  /\ ws_is_running /\ current_simulation
  /\ pc = "yield" /\ Len(snapshots) = 1

\* ------------------------------------------------------------ the messages of a run
\* outbox holds what the client was sent since the last accepted start.
Updates(q) == SelectSeq(q, LAMBDA m : m.type = "simulation_update")

Sent(q, t) == \E i \in 1..Len(q) : q[i].type = t

====
